---- MODULE Spec2Model ----
(***************************************************************************)
(* Orchestration core of the CustomerEmotionPanel Lightning web component. *)
(* Two versions of the component are in the repository:                    *)
(*   "panel" : lwc/customerEmotionPanel/customerEmotionPanel.js            *)
(*             (configuration, persisted seed, history fetch with retry)   *)
(*   "basic" : unnamed/part_000 (no configuration, no persistence)         *)
(* JavaScript is single threaded: a handler runs until it awaits an        *)
(* external promise (the Apex analysis call, the toolkit's                 *)
(* getConversationLog).  Awaits of already settled promises are microtask  *)
(* hops of the same task, so one action is one task: a handler up to its   *)
(* external await, or the settlement of an external call together with     *)
(* every continuation that it resumes.                                     *)
(***************************************************************************)
EXTENDS Integers, Sequences, FiniteSets, TLC

(* ------------------------------ bounds --------------------------------- *)
\* external events (messages, conversation ends, wire deliveries, clicks)
MaxEvents == 3
\* longest conversation log returned by getConversationLog
MaxLog == 2
\* invocations of trySubscribe when it is taken by itself
MaxSubscribes == 5
\* external events under the fair specification
MaxLiveEvents == 2

(* ------------------------- JavaScript values --------------------------- *)
\* scalar fields hold a string, undefined or null
UNDEFINED == "~undefined"
NULL == "~null"

\* JS truthiness of a scalar (string | undefined | null)
Truthy(v) == v \notin {UNDEFINED, NULL, ""}

\* a || b on scalars
Or(a, b) == IF Truthy(a) THEN a ELSE b

\* Texts are sequences of characters (syntax fragments of JSON are one
\* element each); a text-or-undefined value carries a definedness flag.
Str(t) == [def |-> TRUE, txt |-> t]
Undefined == [def |-> FALSE, txt |-> <<>>]

\* JS truthiness of a text-or-undefined value: defined and not ''
TruthyText(m) == m.def /\ m.txt # <<>>

WhiteSpace == {" "}

RECURSIVE TrimStart(_)
TrimStart(t) ==
    IF t # <<>> /\ Head(t) \in WhiteSpace THEN TrimStart(Tail(t)) ELSE t

RECURSIVE TrimEnd(_)
TrimEnd(t) ==
    IF t # <<>> /\ t[Len(t)] \in WhiteSpace
    THEN TrimEnd(SubSeq(t, 1, Len(t) - 1))
    ELSE t

\* String.prototype.trim
Trim(t) == TrimEnd(TrimStart(t))

\* String.prototype.toLowerCase on the emotion words of the model
ToLowerCase(w) ==
    CASE w = "Positive" -> "positive"
      [] w = "Negative" -> "negative"
      [] w = "FURIOUS"  -> "furious"
      [] OTHER          -> w

\* JSON.stringify of a string
StringifyString(t) == <<"\"">> \o t \o <<"\"">>

\* JSON.stringify of a scalar property value (an undefined property is
\* omitted by the caller)
StringifyScalar(v) == IF v = NULL THEN <<"null">> ELSE StringifyString(<<v>>)

(* --------------------------- external data ----------------------------- *)
\* content of an inbound message payload: absent, a string or an object
NoContent == [type |-> "undefined", txt |-> <<>>,
              messageText |-> UNDEFINED, text |-> UNDEFINED]
StringContent(t) == [type |-> "string", txt |-> t,
                     messageText |-> UNDEFINED, text |-> UNDEFINED]
ObjectContent(mt, tx) == [type |-> "object", txt |-> <<>>,
                          messageText |-> mt, text |-> tx]

\* payloads delivered on lightning__conversationEndUserMessage
Payloads ==
    { [content |-> StringContent(<<"h", "i">>), messageText |-> UNDEFINED],
      [content |-> StringContent(<<" ">>), messageText |-> UNDEFINED],
      [content |-> NoContent, messageText |-> UNDEFINED] }

\* the conversation as it grows: its entries alternate between the two
Conversation ==
    [i \in 1..MaxLog |->
        IF i % 2 = 1 THEN [content |-> "hi", name |-> "Ann"]
        ELSE [content |-> "bye", name |-> UNDEFINED]]

\* results of getConversationLog: { messages: [...] } holds the conversation
\* so far, of length 0..MaxLog
Logs == { SubSeq(Conversation, 1, n) : n \in 0..MaxLog }

\* outcomes of the Apex analysis call
Responses ==
    { [kind |-> "object", valid |-> TRUE, emotion |-> "Positive",
       reason |-> "glad", bodyMessage |-> UNDEFINED, message |-> UNDEFINED],
      [kind |-> "object", valid |-> TRUE, emotion |-> UNDEFINED,
       reason |-> UNDEFINED, bodyMessage |-> UNDEFINED, message |-> UNDEFINED],
      [kind |-> "string", valid |-> TRUE, emotion |-> "FURIOUS",
       reason |-> "angry", bodyMessage |-> UNDEFINED, message |-> UNDEFINED],
      [kind |-> "string", valid |-> FALSE, emotion |-> UNDEFINED,
       reason |-> UNDEFINED, bodyMessage |-> UNDEFINED, message |-> UNDEFINED],
      [kind |-> "reject", valid |-> FALSE, emotion |-> UNDEFINED,
       reason |-> UNDEFINED, bodyMessage |-> "Apex failed",
       message |-> UNDEFINED],
      [kind |-> "reject", valid |-> FALSE, emotion |-> UNDEFINED,
       reason |-> UNDEFINED, bodyMessage |-> UNDEFINED,
       message |-> UNDEFINED] }

\* e.message of the SyntaxError JSON.parse throws
ParseErrorMessage == "Unexpected token"

\* deliveries of the getPanelConfig wire: data or an error
ConfigDeliveries ==
    { [kind |-> "data", calculateEveryMessage |-> a,
       calculateOnSessionEnd |-> b, showCalculateButton |-> TRUE] :
        a \in BOOLEAN, b \in BOOLEAN }
    \cup { [kind |-> "error", calculateEveryMessage |-> FALSE,
            calculateOnSessionEnd |-> FALSE, showCalculateButton |-> FALSE] }

\* deliveries of the getRecord wire (LastEmotion__c, LastEmotionReason__c)
SessionDeliveries ==
    { [kind |-> "data", lastEmotion |-> "Negative", lastReason |-> "upset"],
      [kind |-> "data", lastEmotion |-> NULL, lastReason |-> NULL],
      [kind |-> "error", lastEmotion |-> NULL, lastReason |-> NULL] }

(* ------------------------------ state ---------------------------------- *)
VARIABLES
    variant,                    \* which version of the component runs
    emotion, reason, error, loaded, messages, conversationEnded,
    analyzing,                  \* this._analyzing
    config,
    receivingSubscription, endedSubscription,   \* a handle is held
    toolkitReady, initialConversationFetched, fetchAttempts,
    recordId,                   \* this.recordId is set
    toolkit,                    \* this.refs.lwcToolKitApi is rendered
    connected,                  \* connectedCallback has run
    analyzeCalls,               \* analysis calls awaiting their result
    logCalls,                   \* getConversationLog calls awaiting theirs
    timer,                      \* a retry of tryInitialFetch is scheduled
    nLog,                       \* getConversationLog calls made so far
    subscribed,                 \* successful subscribe calls, per channel
    prior,                      \* emotion and reason when the call in flight
                                \* was made
    events,                     \* external events handled so far
    last                        \* what the last task did

vars == <<variant, emotion, reason, error, loaded, messages,
          conversationEnded, analyzing, config, receivingSubscription,
          endedSubscription, toolkitReady, initialConversationFetched,
          fetchAttempts, recordId, toolkit, connected, analyzeCalls,
          logCalls, timer, nLog, subscribed, prior, events, last>>

MAX_FETCH_ATTEMPTS == 5

\* the whole state as one record, so that handlers compose
Cur ==
    [variant |-> variant, emotion |-> emotion, reason |-> reason,
     error |-> error, loaded |-> loaded, messages |-> messages,
     conversationEnded |-> conversationEnded, analyzing |-> analyzing,
     config |-> config, receivingSubscription |-> receivingSubscription,
     endedSubscription |-> endedSubscription, toolkitReady |-> toolkitReady,
     initialConversationFetched |-> initialConversationFetched,
     fetchAttempts |-> fetchAttempts, recordId |-> recordId,
     toolkit |-> toolkit, connected |-> connected,
     analyzeCalls |-> analyzeCalls, logCalls |-> logCalls, timer |-> timer,
     nLog |-> nLog, subscribed |-> subscribed, prior |-> prior,
     events |-> events, last |-> last]

\* the fields after a task are those of the state it returns, which is
\* computed once
Commit(task) ==
    \E s \in {task} :
        /\ variant' = s.variant
        /\ emotion' = s.emotion
        /\ reason' = s.reason
        /\ error' = s.error
        /\ loaded' = s.loaded
        /\ messages' = s.messages
        /\ conversationEnded' = s.conversationEnded
        /\ analyzing' = s.analyzing
        /\ config' = s.config
        /\ receivingSubscription' = s.receivingSubscription
        /\ endedSubscription' = s.endedSubscription
        /\ toolkitReady' = s.toolkitReady
        /\ initialConversationFetched' = s.initialConversationFetched
        /\ fetchAttempts' = s.fetchAttempts
        /\ recordId' = s.recordId
        /\ toolkit' = s.toolkit
        /\ connected' = s.connected
        /\ analyzeCalls' = s.analyzeCalls
        /\ logCalls' = s.logCalls
        /\ timer' = s.timer
        /\ nLog' = s.nLog
        /\ subscribed' = s.subscribed
        /\ prior' = s.prior
        /\ events' = s.events
        /\ last' = s.last

\* emotion and reason while no analysis call is in flight
NoPrior == [emotion |-> UNDEFINED, reason |-> UNDEFINED]

\* the record of a task: the handler that ran, what it was given (a message
\* payload, a wire delivery, the result of a settled call), the settled
\* call's owner, the runAnalysis invocations it made, the runAnalysis
\* invocations that returned in it (with the fields as they were at the
\* return), the subscribe calls it made, the getConversationLog calls it
\* made and the log that a settled getConversationLog call returned
NoTask(op) == [op |-> op, given |-> <<>>, owner |-> "", runs |-> <<>>,
               rets |-> <<>>, subs |-> <<>>, logs |-> 0, log |-> <<>>]

\* the task was given x
Given(s, x) == [s EXCEPT !.last.given = <<x>>]

\* the state a task starts from
Begin(op) == [Cur EXCEPT !.last = NoTask(op)]

\* the same, for a task an external event starts
Event(op) == [Begin(op) EXCEPT !.events = @ + 1]

(* --------------------------- serialization ----------------------------- *)
\* JSON.stringify(message?.content)
StringifyContent(c) ==
    CASE c.type = "undefined" -> Undefined
      [] c.type = "string" -> Str(StringifyString(c.txt))
      [] OTHER ->
           LET mt == IF c.messageText = UNDEFINED THEN <<>>
                     ELSE <<"\"messageText\":">> \o StringifyScalar(c.messageText)
               tx == IF c.text = UNDEFINED THEN <<>>
                     ELSE <<"\"text\":">> \o StringifyScalar(c.text)
               sep == IF mt # <<>> /\ tx # <<>> THEN <<",">> ELSE <<>>
           IN Str(<<"{">> \o mt \o sep \o tx \o <<"}">>)

\* the messageLog entry built from a raw log entry
LogEntry(m) == [content |-> m.content, author |-> Or(m.name, "Unknown")]

\* JSON.stringify of one messageLog entry
StringifyEntry(e) ==
    <<"{\"content\":">> \o StringifyScalar(e.content)
        \o <<",\"author\":">> \o StringifyScalar(e.author) \o <<"}">>

RECURSIVE StringifyEntries(_)
StringifyEntries(log) ==
    IF log = <<>> THEN <<>>
    ELSE StringifyEntry(Head(log))
            \o (IF Tail(log) = <<>> THEN <<>> ELSE <<",">>)
            \o StringifyEntries(Tail(log))

\* a messageLog built back to front
MessageLogReversed(raw) ==
    [i \in 1..Len(raw) |-> LogEntry(raw[Len(raw) + 1 - i])]

\* the messageLog array, in the order of the raw log
MessageLog(raw) == [i \in 1..Len(raw) |-> LogEntry(raw[i])]

\* JSON.stringify(messageLog)
StringifyLog(raw) == <<"[">> \o StringifyEntries(MessageLog(raw)) \o <<"]">>

(* ----------------------------- runAnalysis ----------------------------- *)
hasResult(s) == Truthy(s.emotion)

\* the record of one runAnalysis invocation
Ran(s, force, context, text, busy, outcome) ==
    [s EXCEPT !.last.runs = Append(@,
        [force |-> force, context |-> context, text |-> text,
         busy |-> busy, config |-> s.config, outcome |-> outcome])]

\* the record of one runAnalysis return: how it left, whether it was issued
\* while a call was in flight, what it returned, and the flags at that time
Returned(s, exit, busy, result) ==
    [s EXCEPT !.last.rets = Append(@,
        [exit |-> exit, busy |-> busy, result |-> result,
         analyzing |-> s.analyzing, loaded |-> s.loaded,
         error |-> s.error, emotion |-> s.emotion, reason |-> s.reason,
         prior |-> s.prior])]

\* (overrideText || this.messages || '').trim(); no caller passes overrideText
AnalysisText(s) == Trim(IF TruthyText(s.messages) THEN s.messages.txt ELSE <<>>)

\* policy checks that read the wrong configuration flag for each context
PolicyDeniesSwapped(force, context, cfg) ==
    /\ ~force
    /\ \/ context = "message" /\ ~cfg.calculateOnSessionEnd
       \/ context = "end" /\ ~cfg.calculateEveryMessage

\* the policy checks of runAnalysis: the invocation returns null
PolicyDenies(force, context, cfg) ==
    /\ ~force
    /\ \/ context = "message" /\ ~cfg.calculateEveryMessage
       \/ context = "end" /\ ~cfg.calculateOnSessionEnd

\* a version of the guard that lets overlapping calls through
InFlightGuardOff(s) == FALSE

\* the in-flight guard of runAnalysis
InFlightGuard(s) == s.analyzing

\* the call of the Apex method: it is awaited by the invocation `owner` made
CallAnalysis(s, owner, text) ==
    [s EXCEPT !.analyzeCalls = Append(@, [owner |-> owner, text |-> text]),
              !.prior = [emotion |-> s.emotion, reason |-> s.reason]]

\* a runAnalysis that starts a call without clearing the error
runAnalysisKeepsError(s, force, context, owner) ==
    LET text == AnalysisText(s) IN
    IF text = <<>>
    THEN Returned(Ran([s EXCEPT !.loaded = TRUE], force, context, text, s.analyzing, "empty"),
                  "empty", s.analyzing, "null")
    ELSE IF PolicyDenies(force, context, s.config)
    THEN Returned(Ran(s, force, context, text, s.analyzing, "denied"),
                  "denied", s.analyzing, "null")
    ELSE IF InFlightGuard(s)
    THEN Returned(Ran(s, force, context, text, s.analyzing, "dropped"),
                  "dropped", s.analyzing, "null")
    ELSE CallAnalysis(
            Ran([s EXCEPT !.analyzing = TRUE, !.loaded = FALSE],
                force, context, text, s.analyzing, "started"),
            owner, text)

\* a runAnalysis whose policy denial marks the panel loaded, as the
\* empty-text return does
runAnalysisDenialLoads(s, force, context, owner) ==
    LET text == AnalysisText(s) IN
    IF text = <<>>
    THEN Returned(Ran([s EXCEPT !.loaded = TRUE], force, context, text, s.analyzing, "empty"),
                  "empty", s.analyzing, "null")
    ELSE IF PolicyDenies(force, context, s.config)
    THEN Returned(Ran([s EXCEPT !.loaded = TRUE], force, context, text, s.analyzing, "denied"),
                  "denied", s.analyzing, "null")
    ELSE IF InFlightGuard(s)
    THEN Returned(Ran(s, force, context, text, s.analyzing, "dropped"),
                  "dropped", s.analyzing, "null")
    ELSE CallAnalysis(
            Ran([s EXCEPT !.analyzing = TRUE, !.loaded = FALSE,
                          !.error = NULL],
                force, context, text, s.analyzing, "started"),
            owner, text)

\* runAnalysis up to its await, or to its early return; `owner` names the
\* caller whose continuation runs when the call settles
runAnalysis(s, force, context, owner) ==
    LET text == AnalysisText(s) IN
    IF text = <<>>
    THEN Returned(Ran([s EXCEPT !.loaded = TRUE], force, context, text, s.analyzing, "empty"),
                  "empty", s.analyzing, "null")
    ELSE IF PolicyDenies(force, context, s.config)
    THEN Returned(Ran(s, force, context, text, s.analyzing, "denied"),
                  "denied", s.analyzing, "null")
    ELSE IF InFlightGuard(s)
    THEN Returned(Ran(s, force, context, text, s.analyzing, "dropped"),
                  "dropped", s.analyzing, "null")
    ELSE CallAnalysis(
            Ran([s EXCEPT !.analyzing = TRUE, !.loaded = FALSE,
                          !.error = NULL],
                force, context, text, s.analyzing, "started"),
            owner, text)

\* runAnalysis of the basic version: no options, no policy
runAnalysis0(s, owner) ==
    LET text == AnalysisText(s) IN
    IF text = <<>>
    THEN Returned(Ran([s EXCEPT !.loaded = TRUE], FALSE, "manual", text, s.analyzing, "empty"),
                  "empty", s.analyzing, "null")
    ELSE IF InFlightGuard(s)
    THEN Returned(Ran(s, FALSE, "manual", text, s.analyzing, "dropped"),
                  "dropped", s.analyzing, "null")
    ELSE CallAnalysis(
            Ran([s EXCEPT !.analyzing = TRUE, !.loaded = FALSE,
                          !.error = NULL],
                FALSE, "manual", text, s.analyzing, "started"),
            owner, text)

\* whether the invocation that took s to t is awaiting its call
Awaiting(s, t) == Len(t.analyzeCalls) > Len(s.analyzeCalls)

\* an error message without the generic fallback
ErrorMessageNoFallback(bodyMessage, message) == Or(bodyMessage, message)

\* e?.body?.message || e.message || 'Error analyzing sentiment'
ErrorMessage(bodyMessage, message) ==
    Or(bodyMessage, Or(message, "Error analyzing sentiment"))

\* a finally block that forgets to clear the in-flight flag
FinallyKeepsFlag(s) == [s EXCEPT !.loaded = TRUE]

\* the finally block of runAnalysis
Finally(s) == [s EXCEPT !.loaded = TRUE, !.analyzing = FALSE]

\* a settlement that stores the emotion as it came
resumeAnalysisRaw(s, resp) ==
    IF resp.kind = "reject" \/ (resp.kind = "string" /\ ~resp.valid)
    THEN Returned(Finally([s EXCEPT !.error =
                    ErrorMessage(resp.bodyMessage, resp.message)]),
                  "failure", FALSE, "null")
    ELSE Returned(Finally([s EXCEPT !.emotion = Or(resp.emotion, ""),
                                    !.reason = resp.reason]),
                  "success", FALSE, "object")

\* runAnalysis from the settlement of analyzeAndPersist to its return
resumeAnalysis(s, resp) ==
    IF resp.kind = "reject"
    THEN Returned(Finally([s EXCEPT !.error =
                    ErrorMessage(resp.bodyMessage, resp.message)]),
                  "failure", FALSE, "null")
    ELSE IF resp.kind = "string" /\ ~resp.valid
    THEN \* JSON.parse throws a SyntaxError, which has no body
         Returned(Finally([s EXCEPT !.error =
                    ErrorMessage(UNDEFINED, ParseErrorMessage)]),
                  "failure", FALSE, "null")
    ELSE Returned(Finally([s EXCEPT
                    !.emotion = ToLowerCase(Or(resp.emotion, "")),
                    !.reason = resp.reason]),
                  "success", FALSE, "object")

\* the same in the basic version: a string that does not parse is kept
resumeAnalysis0(s, resp) ==
    IF resp.kind = "reject"
    THEN Returned(Finally([s EXCEPT !.error =
                    ErrorMessage(resp.bodyMessage, resp.message)]),
                  "failure", FALSE, "null")
    ELSE IF resp.kind = "string" /\ ~resp.valid
    THEN Returned(Finally([s EXCEPT !.emotion = ToLowerCase(""),
                                    !.reason = UNDEFINED]),
                  "success", FALSE, "object")
    ELSE Returned(Finally([s EXCEPT
                    !.emotion = ToLowerCase(Or(resp.emotion, "")),
                    !.reason = resp.reason]),
                  "success", FALSE, "object")

(* --------------------------- history fetch ----------------------------- *)
\* handleConversationEnded after `await this.fetchFullConversation()`
endedTail(s) ==
    IF ~hasResult(s) /\ TruthyText(s.messages)
    THEN runAnalysis(s, FALSE, "end", "endedTail")
    ELSE s

\* the callback tryInitialFetch passes to then()
initialFetchThen(s, got) ==
    IF got
    THEN [s EXCEPT !.initialConversationFetched = TRUE]
    ELSE IF s.fetchAttempts < MAX_FETCH_ATTEMPTS
    THEN [s EXCEPT !.fetchAttempts = @ + 1, !.timer = TRUE]
    ELSE s

\* what runs when fetchFullConversation returns `got` to the caller `owner`
afterFetch(s, owner, got) ==
    IF owner = "initial" THEN initialFetchThen(s, got)
    ELSE endedTail(s)

\* fetchFullConversation up to its await of getConversationLog, and the
\* caller's continuation when it returns false at once
fetchFullConversation(s, owner) ==
    IF ~s.toolkit \/ ~s.recordId
    THEN afterFetch(s, owner, FALSE)
    ELSE [s EXCEPT !.logCalls = Append(@, [owner |-> owner]),
                   !.nLog = @ + 1,
                   !.last.logs = @ + 1]

\* fetchFullConversation from the settlement of getConversationLog on:
\* `threw` when it rejected, else `raw` is log.messages
resumeFetch(s, owner, threw, raw) ==
    IF threw \/ Len(raw) = 0
    THEN afterFetch(s, owner, FALSE)
    ELSE LET s1 == [s EXCEPT !.messages = Str(StringifyLog(raw))]
             s2 == runAnalysis(s1, FALSE, "end",
                               IF owner = "initial" THEN "initialFetch"
                               ELSE "endedFetch")
         IN IF Awaiting(s1, s2) THEN s2 ELSE afterFetch(s2, owner, TRUE)

tryInitialFetch(s) == fetchFullConversation(s, "initial")

(* ------------------------------ handlers ------------------------------- *)
\* a check that takes every channel for one without a handle
NoHandleAlways(handle) == TRUE

\* !this.receivingSubscription, !this.endedSubscription
NoHandle(handle) == ~handle

\* the record of one subscribe call: its channel, whether a handle was held
\* for it, and whether the call threw
Subscribed(s, channel, held, threw) ==
    [s EXCEPT !.last.subs = Append(@,
                 [channel |-> channel, held |-> held, threw |-> threw]),
              !.subscribed[channel] = IF threw THEN @ ELSE @ + 1]

\* trySubscribe; throws1 and throws2 say whether a subscribe call would
\* throw; a throw leaves the try block
trySubscribe(s, throws1, throws2) ==
    LET r == NoHandle(s.receivingSubscription) IN
    IF r /\ throws1
    THEN Subscribed(s, "receiving", s.receivingSubscription, TRUE)
    ELSE LET s1 == IF r
                   THEN [Subscribed(s, "receiving",
                                    s.receivingSubscription, FALSE)
                            EXCEPT !.receivingSubscription = TRUE]
                   ELSE s
             e == NoHandle(s1.endedSubscription)
         IN IF e /\ throws2
            THEN Subscribed(s1, "ended", s1.endedSubscription, TRUE)
            ELSE IF e
            THEN [Subscribed(s1, "ended", s1.endedSubscription, FALSE)
                     EXCEPT !.endedSubscription = TRUE]
            ELSE s1

connectedCallback(s, throws1, throws2) ==
    [trySubscribe(s, throws1, throws2) EXCEPT !.loaded = TRUE,
                                              !.connected = TRUE]

renderedCallback(s) ==
    IF ~s.toolkitReady /\ s.toolkit /\ s.recordId
    THEN tryInitialFetch([s EXCEPT !.toolkitReady = TRUE])
    ELSE s

renderedCallback0(s, throws1, throws2) ==
    IF ~s.receivingSubscription THEN trySubscribe(s, throws1, throws2) ELSE s

\* a delivery handler that catches up even when an emotion is set
wiredConfigEager(s0, d) ==
    LET s == Given(s0, d) IN
    IF d.kind = "data"
    THEN LET s1 == [s EXCEPT !.config =
                      [calculateEveryMessage |-> d.calculateEveryMessage,
                       calculateOnSessionEnd |-> d.calculateOnSessionEnd,
                       showCalculateButton |-> d.showCalculateButton]]
         IN IF /\ TruthyText(s1.messages)
               /\ s1.config.calculateEveryMessage
               /\ ~s1.analyzing
            THEN runAnalysis(s1, FALSE, "manual", "config")
            ELSE s1
    ELSE s

wiredConfig(s0, d) ==
    LET s == Given(s0, d) IN
    IF d.kind = "data"
    THEN LET s1 == [s EXCEPT !.config =
                      [calculateEveryMessage |-> d.calculateEveryMessage,
                       calculateOnSessionEnd |-> d.calculateOnSessionEnd,
                       showCalculateButton |-> d.showCalculateButton]]
         IN IF /\ TruthyText(s1.messages)
               /\ s1.config.calculateEveryMessage
               /\ ~s1.analyzing
               /\ ~hasResult(s1)
            THEN runAnalysis(s1, FALSE, "manual", "config")
            ELSE s1
    ELSE s

\* a delivery handler without the check that no emotion is set
wiredSessionUnguarded(s, d) ==
    IF d.kind = "data" /\ Truthy(d.lastEmotion)
    THEN [s EXCEPT !.emotion = ToLowerCase(d.lastEmotion),
                   !.reason = d.lastReason,
                   !.loaded = TRUE]
    ELSE s

wiredSession(s, d) ==
    IF d.kind = "data" /\ ~Truthy(s.emotion) /\ Truthy(d.lastEmotion)
    THEN [s EXCEPT !.emotion = ToLowerCase(d.lastEmotion),
                   !.reason = d.lastReason,
                   !.loaded = TRUE]
    ELSE s

handleMessageReceived(s, message) ==
    LET s1 == [Given(s, message) EXCEPT
                 !.messages = StringifyContent(message.content)] IN
    IF TruthyText(s1.messages)
    THEN runAnalysis(s1, FALSE, "message", "message")
    ELSE s1

\* the text handleMessageReceived of the basic version extracts, or undefined
Extracted(message) ==
    LET c == message.content IN
    IF c.type = "object" /\ Truthy(c.messageText) THEN Str(<<c.messageText>>)
    ELSE IF c.type = "object" /\ Truthy(c.text) THEN Str(<<c.text>>)
    ELSE IF c.type = "object" THEN Str(<<"[object Object]">>)
    ELSE IF c.type = "string" /\ c.txt # <<>> THEN Str(c.txt)
    ELSE IF Truthy(message.messageText) THEN Str(<<message.messageText>>)
    ELSE Undefined

handleMessageReceived0(s0, message) ==
    LET s == Given(s0, message)
        extracted == Extracted(message)
    IN IF ~extracted.def THEN s
       ELSE runAnalysis0([s EXCEPT !.messages = Str(Trim(extracted.txt))],
                         "message")

handleConversationEnded(s) ==
    fetchFullConversation([s EXCEPT !.conversationEnded = TRUE], "ended")

handleConversationEnded0(s) ==
    runAnalysis0([s EXCEPT !.conversationEnded = TRUE], "ended")

NoTextError == "No message text to analyze yet."

\* a click handler that asks as an inbound message does
handleManualCalculateUnforced(s) ==
    IF ~TruthyText(s.messages)
    THEN [s EXCEPT !.error = NoTextError]
    ELSE runAnalysis(s, FALSE, "message", "manual")

handleManualCalculate(s) ==
    IF ~TruthyText(s.messages)
    THEN [s EXCEPT !.error = NoTextError]
    ELSE runAnalysis(s, TRUE, "manual", "manual")

handleManualCalculate0(s) ==
    IF ~TruthyText(s.messages)
    THEN [s EXCEPT !.error = NoTextError]
    ELSE runAnalysis0(s, "manual")

\* the settlement of the i-th analysis call in flight with `resp`, and the
\* continuations of its callers
analysisSettled(s, i, resp) ==
    LET call == s.analyzeCalls[i]
        s1 == [Given(s, resp) EXCEPT !.analyzeCalls =
                 SubSeq(@, 1, i - 1) \o SubSeq(@, i + 1, Len(@)),
                        !.last.owner = call.owner]
        s2 == [(IF s.variant = "basic" THEN resumeAnalysis0(s1, resp)
                ELSE resumeAnalysis(s1, resp)) EXCEPT !.prior = NoPrior]
    IN CASE call.owner = "initialFetch" -> afterFetch(s2, "initial", TRUE)
         [] call.owner = "endedFetch" -> afterFetch(s2, "ended", TRUE)
         [] OTHER -> s2

\* the settlement of the j-th getConversationLog call in flight
logSettled(s, j, threw, raw) ==
    LET call == s.logCalls[j]
        s1 == [s EXCEPT !.logCalls =
                 SubSeq(@, 1, j - 1) \o SubSeq(@, j + 1, Len(@)),
                        !.last.owner = call.owner,
                        !.last.log = raw]
    IN resumeFetch(s1, call.owner, threw, raw)

(* ------------------------------- actions ------------------------------- *)
\* the component as constructed, `handled` external events counted already
Constructed(handled) ==
    /\ variant \in {"panel", "basic"}
    /\ emotion = UNDEFINED
    /\ reason = UNDEFINED
    /\ error = UNDEFINED
    /\ loaded = FALSE
    /\ messages = Undefined
    /\ conversationEnded = FALSE
    /\ analyzing = FALSE
    /\ config = [calculateEveryMessage |-> FALSE,
                 calculateOnSessionEnd |-> FALSE,
                 showCalculateButton |-> FALSE]
    /\ receivingSubscription = FALSE
    /\ endedSubscription = FALSE
    /\ toolkitReady = FALSE
    /\ initialConversationFetched = FALSE
    /\ fetchAttempts = 0
    /\ recordId \in BOOLEAN
    /\ toolkit = FALSE
    /\ connected = FALSE
    /\ analyzeCalls = <<>>
    /\ logCalls = <<>>
    /\ timer = FALSE
    /\ nLog = 0
    /\ subscribed = [receiving |-> 0, ended |-> 0]
    /\ prior = NoPrior
    /\ events = handled
    /\ last = NoTask("constructor")

Init == Constructed(0)

Connect ==
    /\ ~connected
    /\ \E throws1 \in BOOLEAN, throws2 \in BOOLEAN :
         Commit(connectedCallback(Begin("connectedCallback"), throws1, throws2))

\* a render of the panel; the template may or may not hold the toolkit yet
Render ==
    /\ connected /\ variant = "panel"
    /\ \E shown \in BOOLEAN :
         Commit(renderedCallback(
            [Begin("renderedCallback") EXCEPT !.toolkit = @ \/ shown]))

Render0 ==
    /\ connected /\ variant = "basic"
    /\ \E throws1 \in BOOLEAN, throws2 \in BOOLEAN :
         Commit(renderedCallback0(Begin("renderedCallback"), throws1, throws2))

ConfigDelivered ==
    /\ connected /\ variant = "panel" /\ events < MaxEvents
    /\ \E d \in ConfigDeliveries : Commit(wiredConfig(Event("wiredConfig"), d))

SessionDelivered ==
    /\ connected /\ variant = "panel" /\ recordId /\ events < MaxEvents
    /\ \E d \in SessionDeliveries :
         Commit(wiredSession(Event("wiredSession"), d))

MessageReceived ==
    /\ receivingSubscription /\ variant = "panel" /\ events < MaxEvents
    /\ \E m \in Payloads :
         Commit(handleMessageReceived(Event("handleMessageReceived"), m))

MessageReceived0 ==
    /\ receivingSubscription /\ variant = "basic" /\ events < MaxEvents
    /\ \E m \in Payloads :
         Commit(handleMessageReceived0(Event("handleMessageReceived"), m))

ConversationEnded ==
    /\ endedSubscription /\ variant = "panel" /\ events < MaxEvents
    /\ Commit(handleConversationEnded(Event("handleConversationEnded")))

ConversationEnded0 ==
    /\ endedSubscription /\ variant = "basic" /\ events < MaxEvents
    /\ Commit(handleConversationEnded0(Event("handleConversationEnded")))

ManualCalculate ==
    /\ connected /\ variant = "panel" /\ events < MaxEvents
    /\ Commit(handleManualCalculate(Event("handleManualCalculate")))

ManualCalculate0 ==
    /\ connected /\ variant = "basic" /\ events < MaxEvents
    /\ Commit(handleManualCalculate0(Event("handleManualCalculate")))

RetryTimer ==
    /\ timer
    /\ Commit(tryInitialFetch([Begin("tryInitialFetch") EXCEPT !.timer = FALSE]))

AnalysisSettled ==
    \E i \in 1..Len(analyzeCalls), resp \in Responses :
        Commit(analysisSettled(Begin("analysisSettled"), i, resp))

LogSettled ==
    \E j \in 1..Len(logCalls) :
        \/ Commit(logSettled(Begin("logSettled"), j, TRUE, <<>>))
        \/ \E raw \in Logs :
             Commit(logSettled(Begin("logSettled"), j, FALSE, raw))

Next ==
    \/ Connect
    \/ Render
    \/ Render0
    \/ ConfigDelivered
    \/ SessionDelivered
    \/ MessageReceived
    \/ MessageReceived0
    \/ ConversationEnded
    \/ ConversationEnded0
    \/ ManualCalculate
    \/ ManualCalculate0
    \/ RetryTimer
    \/ AnalysisSettled
    \/ LogSettled

Spec == Init /\ [][Next]_vars

(* ------------------------------ scheduling ----------------------------- *)
\* a render of the basic version during which subscribe does not throw
Render0Quiet ==
    /\ connected /\ variant = "basic"
    /\ Commit(renderedCallback0(Begin("renderedCallback"), FALSE, FALSE))

\* the component as constructed, with MaxLiveEvents external events to come
InitLive == Constructed(MaxEvents - MaxLiveEvents)

\* The framework connects the component and keeps rendering it, subscribe
\* ends up not throwing, and every analysis call is settled.  A render that
\* changes nothing is a stuttering step.
SpecLive ==
    /\ InitLive /\ [][Next]_vars
    /\ WF_vars(Connect)
    /\ WF_vars(Render)
    /\ WF_vars(Render0Quiet)
    /\ WF_vars(AnalysisSettled)

(* --------------------- runAnalysis as a function ----------------------- *)
\* the context tags: those the handlers pass, "forced" and an unknown one
Contexts == {"message", "end", "manual", "forced", "other"}

\* buffers the handlers leave in this.messages
Buffers ==
    { Undefined, StringifyContent(StringContent(<<"h", "i">>)),
      Str(StringifyLog(Conversation)) }

\* a connected panel in a state the handlers can leave it in: any
\* configuration, any buffer, idle or awaiting one analysis call
InitPolicy ==
    /\ variant = "panel"
    /\ emotion = UNDEFINED
    /\ reason = UNDEFINED
    /\ error \in {UNDEFINED, NULL}
    /\ messages \in Buffers
    /\ conversationEnded = FALSE
    /\ analyzing \in BOOLEAN
    /\ loaded = ~analyzing
    /\ analyzing => error = NULL /\ TruthyText(messages)
    /\ analyzeCalls = IF analyzing
                      THEN <<[owner |-> "manual", text |-> messages.txt]>>
                      ELSE <<>>
    /\ config \in [calculateEveryMessage : BOOLEAN,
                    calculateOnSessionEnd : BOOLEAN,
                    showCalculateButton : BOOLEAN]
    /\ receivingSubscription = TRUE
    /\ endedSubscription = TRUE
    /\ toolkitReady = FALSE
    /\ initialConversationFetched = FALSE
    /\ fetchAttempts = 0
    /\ recordId = TRUE
    /\ toolkit = FALSE
    /\ connected = TRUE
    /\ logCalls = <<>>
    /\ timer = FALSE
    /\ nLog = 0
    /\ subscribed = [receiving |-> 1, ended |-> 1]
    /\ prior = NoPrior
    /\ events = 0
    /\ last = NoTask("constructor")

\* one invocation of runAnalysis with any options
RunAnalysisInvoked ==
    /\ last.op = "constructor"
    /\ \E force \in BOOLEAN, context \in Contexts :
         Commit(runAnalysis(Begin("runAnalysis"), force, context, "manual"))

NextPolicy == RunAnalysisInvoked

SpecPolicy == InitPolicy /\ [][NextPolicy]_vars

(* --------------------- trySubscribe as a function ---------------------- *)
\* one invocation of trySubscribe, each subscribe call throwing or not
TrySubscribeInvoked ==
    /\ events < MaxSubscribes
    /\ \E throws1 \in BOOLEAN, throws2 \in BOOLEAN :
         Commit(trySubscribe(Event("trySubscribe"), throws1, throws2))

NextSubscribe == TrySubscribeInvoked

\* either version of the component, as constructed, on which trySubscribe is
\* invoked again and again
SpecSubscribe == Init /\ [][NextSubscribe]_vars

(* ------------------------------- claims -------------------------------- *)
Runs == { last.runs[i] : i \in DOMAIN last.runs }
Rets == { last.rets[i] : i \in DOMAIN last.rets }

\* the task settled an analysis call
SettledAnalysis == last.op = "analysisSettled"

\* C1: at most one analysis call is in flight, and the flag stands exactly
\* while one is; a runAnalysis request issued while one is in flight makes no
\* call and returns null; nothing is queued, so the settlement of a call starts
\* no call other than the conversation-ended handler's own next request.
C1_SingleFlight ==
    /\ Len(analyzeCalls) <= 1
    /\ analyzing <=> analyzeCalls # <<>>
    /\ \A r \in Runs : r.busy => r.outcome # "started"
    /\ \A r \in Rets : r.busy => r.result = "null"
    /\ SettledAnalysis =>
         \A r \in Runs : r.outcome = "started" =>
            last.owner = "endedFetch" /\ r.context = "end"

\* a request was dropped while a call is in flight, which is still in flight
C1_Witness ==
    /\ \E r \in Runs : r.busy /\ r.outcome = "dropped"
    /\ Len(analyzeCalls) = 1

\* C2 as stated: on success, failure and the empty-text return of every
\* invocation, also of one issued while a call is in flight, analyzing is
\* false and loaded is true at the return.
C2_CleanupEveryInvocation ==
    \A r \in Rets :
        r.exit \in {"success", "failure", "empty"} =>
            ~r.analyzing /\ r.loaded

\* C2: an invocation issued while no call is in flight returns with
\* analyzing false, and with loaded true unless the policy denied it; an
\* invocation issued while a call is in flight returns null and leaves
\* analyzing true.
C2_Cleanup ==
    \A r \in Rets :
        /\ ~r.busy => ~r.analyzing /\ (r.exit # "denied" => r.loaded)
        /\ r.busy => r.analyzing /\ r.result = "null"

\* an analysis call was rejected and its invocation has returned
C2_Witness == \E r \in Rets : r.exit = "failure" /\ ~r.busy

\* C3: analyzing implies not loaded, in every reachable state.
C3_AnalyzingExcludesLoaded == analyzing => ~loaded

C5_FetchBound == ~conversationEnded => nLog <= MAX_FETCH_ATTEMPTS

\* C6 as stated: once the initial fetch has succeeded no getConversationLog
\* call is made any more.
C6_FetchIdempotent == [][initialConversationFetched => nLog' = nLog]_vars

\* C7 as stated: a persisted-state delivery changes emotion and reason only
\* while no emotion was ever set; once a live analysis has succeeded, or a
\* seed was applied, every later delivery leaves them unchanged.
C7_SeedOnceEver ==
    [][(last'.op = "wiredSession" /\ emotion # UNDEFINED)
          => (emotion' = emotion /\ reason' = reason)]_vars

\* C7: a persisted-state delivery changes emotion and reason only while
\* emotion is unset or empty, and then to the lower-cased persisted value;
\* once emotion is non-empty every later delivery leaves both unchanged.
C7_SeedOnce ==
    [][last'.op = "wiredSession" =>
          IF Truthy(emotion)
          THEN emotion' = emotion /\ reason' = reason
          ELSE \/ emotion' = emotion /\ reason' = reason
               \/ emotion' = "negative" /\ reason' = "upset" /\ loaded']_vars

\* a delivery was handled after a live analysis had stored its result, which
\* stands
C7_Witness ==
    /\ last.op = "wiredSession"
    /\ emotion = "positive" /\ reason = "glad"

\* C8 as stated: emotion is unset or one of positive, negative, neutral and
\* unknown.
C8_EmotionDomain ==
    emotion \in {UNDEFINED, "positive", "negative", "neutral", "unknown"}

\* C8: emotion is unset, empty (a response without an emotion) or the
\* lower-cased raw value, whether it is a known word or not; no value is
\* mapped to 'unknown'.
C8_EmotionLowerCased ==
    /\ emotion \in {UNDEFINED, "", "positive", "negative", "furious"}
    /\ (\E r \in Rets : r.exit = "success") =>
          emotion \in {"", "positive", "furious"}

\* an analysis returned an emotion that is none of the known words
C8_Witness ==
    /\ SettledAnalysis
    /\ emotion = "furious"

\* C9: in the panel, an inbound message handled with calculateEveryMessage
\* false makes no analysis call; a manual calculation with text buffered and
\* no call in flight makes exactly one call, on the buffered text, whatever
\* the configuration; with no text buffered it makes no call and sets error.
C9_ManualTrigger ==
    variant = "panel" =>
        /\ (last.op = "handleMessageReceived" /\ ~config.calculateEveryMessage)
              => \A r \in Runs : r.outcome # "started"
        /\ (last.op = "handleManualCalculate" /\ TruthyText(messages))
              => /\ Len(last.runs) = 1
                 /\ ~last.runs[1].busy =>
                      /\ last.runs[1].outcome = "started"
                      /\ analyzeCalls =
                            <<[owner |-> "manual", text |-> Trim(messages.txt)]>>
        /\ (last.op = "handleManualCalculate" /\ ~TruthyText(messages))
              => /\ last.runs = <<>>
                 /\ error = NoTextError
                 /\ ~analyzing => analyzeCalls = <<>>

\* a message arrived with calculateEveryMessage false and then the manual
\* calculation started the only call, on the text of that message
C9_Witness ==
    /\ variant = "panel"
    /\ last.op = "handleManualCalculate"
    /\ ~config.calculateEveryMessage /\ ~config.calculateOnSessionEnd
    /\ events = 2 /\ nLog = 0
    /\ analyzeCalls = <<[owner |-> "manual", text |-> <<"\"", "h", "i", "\"">>]>>

\* the serialization of the i-th entry of the conversation, written out
ExpectedEntry(i) ==
    IF i % 2 = 1
    THEN <<"{\"content\":", "\"", "hi", "\"", ",\"author\":",
           "\"", "Ann", "\"", "}">>
    ELSE <<"{\"content\":", "\"", "bye", "\"", ",\"author\":",
           "\"", "Unknown", "\"", "}">>

RECURSIVE ExpectedEntries(_, _)
ExpectedEntries(i, n) ==
    IF i > n THEN <<>>
    ELSE ExpectedEntry(i) \o (IF i < n THEN <<",">> ELSE <<>>)
            \o ExpectedEntries(i + 1, n)

\* the serialization of the first n entries of the conversation, in order
ExpectedLog(n) == <<"[">> \o ExpectedEntries(1, n) \o <<"]">>

Started == { r \in Runs : r.outcome = "started" }

\* C10 as stated: the conversation-ended handler whose fetch made an analysis
\* call makes no other call, whatever the outcome of that call.
C10_ExactlyOneCall ==
    (SettledAnalysis /\ last.owner = "endedFetch") => Started = {}

\* C10: the conversation-ended handler sets conversationEnded; when its fetch
\* returns entries it replaces the buffer by their serialization in arrival
\* order and, with calculateOnSessionEnd true and no call in flight, makes
\* one analysis call on that buffer; when that call settles it makes a second
\* call, on the buffered text, iff no emotion is set, text is buffered and
\* calculateOnSessionEnd is true, and otherwise no other call.
C10_ConversationEnded ==
    variant = "panel" =>
        /\ last.op = "handleConversationEnded" => conversationEnded
        /\ (last.op = "logSettled" /\ last.owner = "ended" /\ last.log # <<>>)
              => /\ messages = Str(ExpectedLog(Len(last.log)))
                 /\ Len(last.runs) >= 1
                 /\ (~last.runs[1].busy /\ config.calculateOnSessionEnd)
                       => /\ Len(last.runs) = 1
                          /\ last.runs[1].outcome = "started"
                          /\ analyzeCalls =
                               <<[owner |-> "endedFetch",
                                  text |-> ExpectedLog(Len(last.log))]>>
        /\ (SettledAnalysis /\ last.owner = "endedFetch")
              => /\ Len(last.runs) <= 1
                 /\ Started # {} <=>
                       /\ ~Truthy(emotion)
                       /\ TruthyText(messages)
                       /\ config.calculateOnSessionEnd
                 /\ Started # {} =>
                       analyzeCalls = <<[owner |-> "endedTail",
                                         text |-> Trim(messages.txt)]>>

\* the call that the handler made on the fetched two-entry log has settled
\* with an emotion, and the handler made no other call
C10_Witness ==
    /\ SettledAnalysis /\ last.owner = "endedFetch"
    /\ conversationEnded
    /\ config.calculateOnSessionEnd
    /\ messages = Str(ExpectedLog(2))
    /\ emotion = "positive"
    /\ analyzeCalls = <<>>

\* the subscribe calls of the task
Subs == { last.subs[i] : i \in DOMAIN last.subs }

\* C11: for each channel, at most one subscribe call has succeeded, a handle
\* is held exactly when one has (so that the handle stored is the result of
\* that one call and is never replaced), no subscribe call is made for a
\* channel that holds a handle, and an invocation calls subscribe at most
\* once per channel.
C11_SubscriptionIdempotent ==
    /\ subscribed.receiving <= 1
    /\ subscribed.ended <= 1
    /\ receivingSubscription <=> subscribed.receiving = 1
    /\ endedSubscription <=> subscribed.ended = 1
    /\ \A c \in Subs : ~c.held
    /\ \A i, j \in DOMAIN last.subs :
          last.subs[i].channel = last.subs[j].channel => i = j

\* trySubscribe was invoked with the inbound-message handle held and the
\* conversation-ended handle missing, and its one subscribe call gave the
\* second handle
C11_Witness ==
    /\ last.op = "trySubscribe"
    /\ last.subs = <<[channel |-> "ended", held |-> FALSE, threw |-> FALSE]>>
    /\ receivingSubscription /\ endedSubscription
    /\ subscribed = [receiving |-> 1, ended |-> 1]

\* C12 as stated: with renders that keep occurring and subscribe calls that
\* end up not throwing, both handles are eventually held.
C12_SubscriptionRetry == <>(receivingSubscription /\ endedSubscription)

\* C13 as stated: with force false, a runAnalysis invocation whose context is
\* none of message, end and manual makes no analysis call.
C13_FailClosed ==
    \A r \in Runs :
        (~r.force /\ r.context \notin {"message", "end", "manual"}) =>
            r.outcome # "started"

\* C18: a runAnalysis invocation with non-empty text, force false and a
\* context that the configuration denies (message without
\* calculateEveryMessage, end without calculateOnSessionEnd) returns null,
\* makes no call and leaves analyzing, loaded, error, emotion, reason and the
\* buffered text as they were, whether a call is in flight or not.
C18_DenialNoSideEffects ==
    [][\A i \in DOMAIN last'.runs :
          LET r == last'.runs[i] IN
          (/\ last'.op = "runAnalysis"
           /\ r.text # <<>> /\ ~r.force
           /\ \/ r.context = "message" /\ ~r.config.calculateEveryMessage
              \/ r.context = "end" /\ ~r.config.calculateOnSessionEnd)
          => /\ r.outcome = "denied"
             /\ Len(last'.rets) = 1
             /\ last'.rets[1].result = "null"
             /\ r.busy = analyzing
             /\ UNCHANGED <<analyzing, loaded, error, emotion, reason,
                            messages, analyzeCalls, prior>>]_vars

\* an inbound-message request was denied by the configuration while another
\* analysis was in flight, which still is
C18_Witness ==
    /\ last.op = "runAnalysis"
    /\ \E r \in Runs :
          /\ r.outcome = "denied" /\ r.busy /\ r.text # <<>>
          /\ r.context = "message" /\ ~r.config.calculateEveryMessage
    /\ analyzing /\ ~loaded /\ Len(analyzeCalls) = 1

\* the analysis call was rejected or, in the panel, gave a string that does
\* not parse
FailedResponse(resp) ==
    \/ resp.kind = "reject"
    \/ variant = "panel" /\ resp.kind = "string" /\ ~resp.valid

\* C14 as stated: when the analysis call fails, at the return of runAnalysis
\* error is a non-empty string, emotion and reason are what they were before
\* the call was made, analyzing is false, loaded is true and the result is
\* null.
C14_FailureKeepsValuesBeforeCall ==
    (SettledAnalysis /\ FailedResponse(last.given[1])) =>
        LET r == last.rets[1] IN
        /\ r.exit = "failure" /\ r.result = "null"
        /\ Truthy(r.error)
        /\ r.emotion = r.prior.emotion /\ r.reason = r.prior.reason
        /\ ~r.analyzing /\ r.loaded

\* C14: when the analysis call fails, at the return of runAnalysis error is
\* the richest message of the failure or the generic one, hence a non-empty
\* string, emotion and reason are what they were when the call settled,
\* analyzing is false, loaded is true and the result is null.
C14_AnalysisFailure ==
    [][(last'.op = "analysisSettled" /\ FailedResponse(last'.given[1])) =>
          LET r == last'.rets[1]
              resp == last'.given[1]
          IN /\ r.exit = "failure" /\ r.result = "null"
             /\ Truthy(r.error)
             /\ r.error = IF resp.kind = "reject"
                          THEN Or(resp.bodyMessage, "Error analyzing sentiment")
                          ELSE ParseErrorMessage
             /\ r.emotion = emotion /\ r.reason = reason
             /\ ~r.analyzing /\ r.loaded]_vars

\* an analysis call was rejected after an earlier analysis had stored its
\* result: the message of the rejection is shown and the result stands
C14_Witness ==
    /\ SettledAnalysis
    /\ last.given[1].kind = "reject"
    /\ error = "Apex failed"
    /\ emotion = "positive" /\ reason = "glad"
    /\ ~analyzing /\ loaded

\* C15 as stated: at most one getConversationLog call is in flight.
C15_FetchSingleFlight == Len(logCalls) <= 1

\* C16 as stated: a fetch that returns entries while an emotion is set makes
\* no analysis call (the task that settles the fetch changes no emotion, so
\* emotion is what it was when the fetch succeeded).
C16_FetchSkipsWhenResult ==
    (last.op = "logSettled" /\ last.log # <<>> /\ hasResult(Cur)) =>
        Started = {}

\* a payload without content and without a messageText of its own
NoUsableText(message) ==
    message.content.type = "undefined" /\ ~Truthy(message.messageText)

\* C17 as stated: handling an inbound message without usable text makes no
\* analysis call (runAnalysis is not invoked) and leaves the panel state as
\* it was, the buffered text included.
C17_ExtractionMissIgnored ==
    [][(last'.op = "handleMessageReceived" /\ NoUsableText(last'.given[1]))
          => /\ last'.runs = <<>>
             /\ UNCHANGED <<messages, emotion, reason, error, loaded,
                            analyzing, analyzeCalls, conversationEnded,
                            config>>]_vars

\* C20: a configuration delivery with data replaces config by the delivered
\* flags and starts an analysis call, on the buffered text, iff text is
\* buffered, the delivered calculateEveryMessage is true, no analysis is in
\* flight and no emotion is set; otherwise it makes no call; a delivery of an
\* error leaves config as it was and makes no call.
C20_ConfigCatchUp ==
    [][last'.op = "wiredConfig" =>
          LET d == last'.given[1]
              started == \E i \in DOMAIN last'.runs :
                            last'.runs[i].outcome = "started"
          IN IF d.kind = "data"
             THEN /\ config' =
                        [calculateEveryMessage |-> d.calculateEveryMessage,
                         calculateOnSessionEnd |-> d.calculateOnSessionEnd,
                         showCalculateButton |-> d.showCalculateButton]
                  /\ started <=> /\ TruthyText(messages)
                                 /\ d.calculateEveryMessage
                                 /\ ~analyzing
                                 /\ ~Truthy(emotion)
                  /\ IF started
                     THEN analyzeCalls' =
                            <<[owner |-> "config",
                               text |-> Trim(messages.txt)]>>
                     ELSE analyzeCalls' = analyzeCalls
             ELSE /\ config' = config
                  /\ last'.runs = <<>>
                  /\ analyzeCalls' = analyzeCalls]_vars

\* a message was buffered while calculateEveryMessage was false, and the
\* delivery of a configuration with the flag true started the call on it
C20_Witness ==
    /\ last.op = "wiredConfig"
    /\ config.calculateEveryMessage
    /\ analyzing
    /\ analyzeCalls = <<[owner |-> "config",
                         text |-> <<"\"", "h", "i", "\"">>]>>

\* the configuration lets the invocation r through
Permitted(r) ==
    \/ r.force
    \/ r.context = "message" /\ r.config.calculateEveryMessage
    \/ r.context = "end" /\ r.config.calculateOnSessionEnd
    \/ r.context \notin {"message", "end"}

\* C19: when every analysis call is settled, analyzing true leads to
\* analyzing false; and in every state, also after a failed analysis, a
\* permitted runAnalysis invocation on non-empty text with no call in flight
\* starts a call, and the task that starts a call leaves error null,
\* analyzing true and loaded false.
C19_NoAbsorbingFailure ==
    /\ analyzing ~> ~analyzing
    /\ [](\A r \in Runs :
            (r.text # <<>> /\ ~r.busy /\ Permitted(r)) =>
                r.outcome = "started")
    /\ [](Started # {} =>
            /\ error = NULL /\ analyzing /\ ~loaded
            /\ Len(analyzeCalls) = 1)

\* an analysis call of the conversation-ended handler failed, which set
\* error, and the handler's next request started a new call and cleared it
C19_Witness ==
    /\ SettledAnalysis
    /\ last.rets[1].exit = "failure" /\ Truthy(last.rets[1].error)
    /\ Started # {}
    /\ error = NULL /\ analyzing
    /\ Len(analyzeCalls) = 1

====
